---- MODULE Spec2Model ----
(***************************************************************************)
(* Session manager of the timed arithmetic quiz (src/game.py): the table   *)
(* of active sessions, the per-session timer tasks run by the asyncio      *)
(* event loop, and the storage collaborator the sessions are saved to.     *)
(*                                                                         *)
(* The event loop is single-threaded: a synchronous method, and a          *)
(* coroutine between two suspension points, is one atomic step.            *)
(***************************************************************************)
EXTENDS Integers, Sequences, FiniteSets, TLC

VARIABLES
    active_sessions,  \* GameManager.active_sessions: user_id -> GameSession
    tasks,            \* the asyncio timer tasks created by start_game
    db_users,         \* storage collaborator: telegram_id -> User
    db_results,       \* storage collaborator: the saved GameResults, in order
    now,              \* datetime.utcnow(), in seconds
    sink_calls,       \* user_ids the end_callback was invoked with, in order
    notified,         \* user_ids whose end_callback ran to completion
    next_id,          \* identity of the next GameResult / task object
    ret               \* the last call of the public interface and its result

vars == <<active_sessions, tasks, db_users, db_results, now, sink_calls, notified, next_id, ret>>

----------------------------------------------------------------------------
(* Bounds of the model *)

MaxSessions == 2
MaxAttempts == 2
MaxTicks == 1

(* Program constants *)

GAME_DURATION_SECONDS == 60

\* the users who talk to the bot
Users == {1}

\* the granularity of the clock: the length of a game
TickStep == GAME_DURATION_SECONDS

----------------------------------------------------------------------------
(* Optional values: None is the empty tuple, a present value x is <<x>>. *)

Put(f, k, v) == [x \in DOMAIN f \cup {k} |-> IF x = k THEN v ELSE f[x]]
Remove(f, k) == [x \in DOMAIN f \ {k} |-> f[x]]

None == <<>>
Some(x) == <<x>>

\* datetime.isoformat(): the timestamp as text
isoformat(t) == [iso |-> t]

----------------------------------------------------------------------------
(* Answer text: a string is the tuple of its characters. *)

Whitespace == {" ", "\t", "\n"}
Digits == <<"0", "1", "2", "3", "4", "5", "6", "7", "8", "9">>
DigitSet == {Digits[i] : i \in 1..10}
DigitValue(c) == (CHOOSE i \in 1..10 : Digits[i] = c) - 1

RECURSIVE lstrip(_)
lstrip(s) == IF s # <<>> /\ Head(s) \in Whitespace THEN lstrip(Tail(s)) ELSE s

RECURSIVE rstrip(_)
rstrip(s) == IF s # <<>> /\ s[Len(s)] \in Whitespace THEN rstrip(SubSeq(s, 1, Len(s) - 1)) ELSE s

RECURSIVE strip_All(_)
strip_All(s) ==
    IF s = <<>> THEN s
    ELSE IF Head(s) \in Whitespace THEN strip_All(Tail(s))
    ELSE <<Head(s)>> \o strip_All(Tail(s))

\* str.strip()
strip(s) == rstrip(lstrip(s))

\* the digits of an int literal: digits, single underscores only between digits
IsDigitRun(s) ==
    /\ s # <<>>
    /\ \A i \in 1..Len(s) : s[i] \in DigitSet \cup {"_"}
    /\ s[1] # "_" /\ s[Len(s)] # "_"
    /\ \A i \in 1..(Len(s) - 1) : ~(s[i] = "_" /\ s[i + 1] = "_")

Unsigned(s) == IF s # <<>> /\ Head(s) \in {"+", "-"} THEN Tail(s) ELSE s

\* int(text) does not raise ValueError
IsIntText(s) == IsDigitRun(Unsigned(strip(s)))

RECURSIVE DigitsValue(_, _)
DigitsValue(s, acc) ==
    IF s = <<>> THEN acc
    ELSE IF Head(s) = "_" THEN DigitsValue(Tail(s), acc)
    ELSE DigitsValue(Tail(s), 10 * acc + DigitValue(Head(s)))

\* int(text), for a text that parses
IntOf(s) ==
    LET t == strip(s)
    IN  IF t # <<>> /\ Head(t) = "-" THEN 0 - DigitsValue(Tail(t), 0)
        ELSE DigitsValue(Unsigned(t), 0)

\* the answer texts users send
RawTexts ==
    { <<"7">>, <<" ", "7", " ">>, <<"+", "0", "7">>,
      <<"a", "b", "c">>, <<>>, <<"7", ".", "0">>, <<"7", " ", "7">> }

----------------------------------------------------------------------------
(* generate_question: the random draws are the inputs <<operation, r1, r2>>. *)

Min(a, b) == IF a <= b THEN a ELSE b

\* the draws with the second factor of a product bounded by 99 // a only
AdmissibleDraw_NoCap(d) ==
    LET op == d[1]
        r1 == d[2]
        r2 == d[3]
    IN  CASE op = "+" -> r1 \in 0..99 /\ r2 \in 0..(99 - r1)
          [] op = "-" -> r1 \in 0..99 /\ r2 \in 0..r1
          [] op = "*" -> r1 \in 0..11 /\ r2 \in (IF r1 = 0 THEN 0..99 ELSE 0..(99 \div r1))
          [] op = "/" -> r1 \in 1..9 /\ r2 \in 0..Min(11, 99 \div r1)
          [] OTHER -> FALSE

\* the draws random.choice / random.randint can return
AdmissibleDraw(d) ==
    LET op == d[1]
        r1 == d[2]
        r2 == d[3]
    IN  CASE op = "+" -> r1 \in 0..99 /\ r2 \in 0..(99 - r1)
          [] op = "-" -> r1 \in 0..99 /\ r2 \in 0..r1
          [] op = "*" -> r1 \in 0..11 /\ r2 \in (IF r1 = 0 THEN 0..99 ELSE 0..Min(99 \div r1, 9))
          [] op = "/" -> r1 \in 1..9 /\ r2 \in 0..Min(11, 99 \div r1)
          [] OTHER -> FALSE

generate_question_DividendAsAnswer(d) ==
    LET op == d[1]
        r1 == d[2]
        r2 == d[3]
    IN  CASE op = "+" -> [question |-> <<r1, "+", r2>>, answer |-> r1 + r2]
          [] op = "-" -> [question |-> <<r1, "-", r2>>, answer |-> r1 - r2]
          [] op = "*" -> [question |-> <<r1, "x", r2>>, answer |-> r1 * r2]
          [] OTHER    -> [question |-> <<r1 * r2, "/", r1>>, answer |-> r1 * r2]

generate_question(d) ==
    LET op == d[1]
        r1 == d[2]
        r2 == d[3]
    IN  CASE op = "+" -> [question |-> <<r1, "+", r2>>, answer |-> r1 + r2]
          [] op = "-" -> [question |-> <<r1, "-", r2>>, answer |-> r1 - r2]
          [] op = "*" -> [question |-> <<r1, "x", r2>>, answer |-> r1 * r2]
          [] OTHER    -> [question |-> <<r1 * r2, "/", r1>>, answer |-> r2]

\* every draw generate_question can make
AllDraws == { d \in {"+", "-", "*", "/"} \X (0..99) \X (0..99) : AdmissibleDraw(d) }

\* the draws the session model explores
SessionDraws == { d \in {<<"+", 3, 4>>, <<"*", 3, 4>>} : AdmissibleDraw(d) }

----------------------------------------------------------------------------
(* Storage collaborator *)

ProfileDraws == { [username |-> None, first_name |-> Some("X"), last_name |-> None] }

get_or_create_user(db, user_id, p) ==
    IF user_id \in DOMAIN db THEN db
    ELSE [v \in DOMAIN db \cup {user_id} |->
            IF v = user_id
            THEN [telegram_id |-> user_id, username |-> p.username,
                  first_name |-> p.first_name, last_name |-> p.last_name,
                  created_at |-> isoformat(now)]
            ELSE db[v]]

save_game_result(db, result) == Append(db, result)

----------------------------------------------------------------------------
(* Timer tasks *)

\* asyncio.Task.done(): tasks holds the tasks that have not finished
task_done(t) == t \notin DOMAIN tasks

\* a cancel that only reaches a task still in its sleep
cancel_OnlySleeping(ts, t) == IF ts[t].pc = "sleep" THEN [ts EXCEPT ![t].must_cancel = TRUE] ELSE ts

\* asyncio.Task.cancel(): the task gets CancelledError at its next step
cancel(ts, t) == [ts EXCEPT ![t].must_cancel = TRUE]

----------------------------------------------------------------------------
Init ==
    /\ active_sessions = <<>>
    /\ tasks = <<>>
    /\ db_users = <<>>
    /\ db_results = <<>>
    /\ now = 0
    /\ sink_calls = <<>>
    /\ notified = <<>>
    /\ next_id = 1
    /\ ret = [op |-> "init", user_id |-> 0, value |-> None]

\* the GameResult object of the user's previous game, if there is one
NewGameResult_Reused(user_id) ==
    LET mine == SelectSeq(db_results, LAMBDA r : r.user_telegram_id = user_id)
    IN  IF mine # <<>> THEN mine[Len(mine)]
        ELSE [id |-> next_id, user_telegram_id |-> user_id, score |-> 0, total_questions |-> 0,
              correct_answers |-> 0, started_at |-> isoformat(now), finished_at |-> None,
              attempts |-> <<>>]

\* GameResult(user_telegram_id=user_id); id is the object's identity
NewGameResult(user_id) ==
    [id |-> next_id, user_telegram_id |-> user_id, score |-> 0, total_questions |-> 0,
     correct_answers |-> 0, started_at |-> isoformat(now), finished_at |-> None,
     attempts |-> <<>>]

NewSession(user_id, q, with_timer) ==
    [user_id |-> user_id, current_question |-> q.question, expected_answer |-> q.answer,
     score |-> 0, total_questions |-> 1, correct_answers |-> 0,
     end_time |-> now + GAME_DURATION_SECONDS,
     game_result |-> NewGameResult(user_id),
     task |-> IF with_timer THEN Some(next_id) ELSE None]

NewTask(user_id) ==
    [user_id |-> user_id, end_time |-> now + GAME_DURATION_SECONDS,
     pc |-> "sleep", must_cancel |-> FALSE]

(* The answers accepted so far, over all sessions (what MaxAttempts bounds) *)

RECURSIVE SumLen(_)
SumLen(rs) == IF rs = <<>> THEN 0 ELSE Len(Head(rs).attempts) + SumLen(Tail(rs))

RECURSIVE SumLive(_)
SumLive(us) ==
    IF us = {} THEN 0
    ELSE LET u == CHOOSE x \in us : TRUE
         IN  Len(active_sessions[u].game_result.attempts) + SumLive(us \ {u})

AttemptsMade == SumLen(db_results) + SumLive(DOMAIN active_sessions)

AlreadyActive_Never(user_id) == FALSE

\* if user_id in self.active_sessions (start_game)
AlreadyActive(user_id) == user_id \in DOMAIN active_sessions

\* start_game, the first problem generated from a draw of the set draws
start_game_drawing(user_id, p, end_callback, draws) ==
    IF AlreadyActive(user_id)
    THEN /\ ret' = [op |-> "start_game", user_id |-> user_id, value |-> None]
         /\ UNCHANGED <<active_sessions, tasks, db_users, db_results, now, sink_calls, notified, next_id>>
    ELSE \E d \in draws :
         LET session == NewSession(user_id, generate_question(d), end_callback)
         IN  /\ next_id <= MaxSessions
             /\ db_users' = get_or_create_user(db_users, user_id, p)
             /\ tasks' = IF end_callback THEN Put(tasks, next_id, NewTask(user_id)) ELSE tasks
             /\ active_sessions' = Put(active_sessions, user_id, session)
             /\ next_id' = next_id + 1
             /\ ret' = [op |-> "start_game", user_id |-> user_id, value |-> Some(session)]
             /\ UNCHANGED <<db_results, now, sink_calls, notified>>

start_game(user_id, p, end_callback) == start_game_drawing(user_id, p, end_callback, SessionDraws)

StartGame(U) == \E u \in U, p \in ProfileDraws, cb \in BOOLEAN : start_game(u, p, cb)

----------------------------------------------------------------------------
(* end_game *)

FinalResult_NoStamp(s) ==
    [s.game_result EXCEPT !.score = s.score,
                          !.total_questions = s.total_questions,
                          !.correct_answers = s.correct_answers]

FinalResult_NoTotal(s) ==
    [s.game_result EXCEPT !.score = s.score,
                          !.correct_answers = s.correct_answers,
                          !.finished_at = Some(isoformat(now))]

\* the session's bound GameResult with the final counters and finished_at
FinalResult(s) ==
    [s.game_result EXCEPT !.score = s.score,
                          !.total_questions = s.total_questions,
                          !.correct_answers = s.correct_answers,
                          !.finished_at = Some(isoformat(now))]

CancelTimer_Skip(s) == tasks

\* if session.task and not session.task.done(): session.task.cancel()
CancelTimer(s) ==
    IF s.task # None /\ ~task_done(s.task[1]) THEN cancel(tasks, s.task[1]) ELSE tasks

DeleteSession_Keep(user_id) == active_sessions

DeleteSession_All(user_id) == <<>>

\* del self.active_sessions[user_id]
DeleteSession(user_id) == Remove(active_sessions, user_id)

\* the body of end_game for a user with a session; the caller sets ret and the rest
EndGameBody(user_id, tasks_after) ==
    /\ tasks_after = CancelTimer(active_sessions[user_id])
    /\ db_results' = save_game_result(db_results, FinalResult(active_sessions[user_id]))
    /\ active_sessions' = DeleteSession(user_id)

\* if user_id not in self.active_sessions (end_game)
NothingToEnd(user_id) == user_id \notin DOMAIN active_sessions

end_game(user_id) ==
    IF NothingToEnd(user_id)
    THEN /\ ret' = [op |-> "end_game", user_id |-> user_id, value |-> None]
         /\ UNCHANGED <<active_sessions, tasks, db_users, db_results, now, sink_calls, notified, next_id>>
    ELSE /\ EndGameBody(user_id, tasks')
         /\ ret' = [op |-> "end_game", user_id |-> user_id,
                    value |-> Some(FinalResult(active_sessions[user_id]))]
         /\ UNCHANGED <<db_users, now, sink_calls, notified, next_id>>

EndGame(U) == \E u \in U : end_game(u)

\* if user_id in self.active_sessions (force_end_game)
SomethingToEnd(user_id) == user_id \in DOMAIN active_sessions

force_end_game(user_id) ==
    /\ ret' = [op |-> "force_end_game", user_id |-> user_id, value |-> None]
    /\ IF SomethingToEnd(user_id)
       THEN /\ EndGameBody(user_id, tasks')
            /\ UNCHANGED <<db_users, now, sink_calls, notified, next_id>>
       ELSE UNCHANGED <<active_sessions, tasks, db_users, db_results, now, sink_calls, notified, next_id>>

ForceEndGame(U) == \E u \in U : force_end_game(u)

\* active_sessions.pop(user_id, None) in place of active_sessions.get(user_id)
get_session_Pop(user_id) ==
    /\ ret' = [op |-> "get_session", user_id |-> user_id,
               value |-> IF user_id \in DOMAIN active_sessions
                         THEN Some(active_sessions[user_id]) ELSE None]
    /\ active_sessions' = Remove(active_sessions, user_id)
    /\ UNCHANGED <<tasks, db_users, db_results, now, sink_calls, notified, next_id>>

get_session(user_id) ==
    /\ ret' = [op |-> "get_session", user_id |-> user_id,
               value |-> IF user_id \in DOMAIN active_sessions
                         THEN Some(active_sessions[user_id]) ELSE None]
    /\ UNCHANGED <<active_sessions, tasks, db_users, db_results, now, sink_calls, notified, next_id>>

GetSession(U) == \E u \in U : get_session(u)

----------------------------------------------------------------------------
(* process_answer *)

MsgNoActiveGame == "no active game"
MsgNotANumber == "not a number"

TimeIsUp_Strict(s) == now > s.end_time

\* datetime.utcnow() >= session.end_time
TimeIsUp(s) == now >= s.end_time

\* was_correct = (answer_int == current_expected_answer)
WasCorrect(answer_int, s) == answer_int = s.expected_answer

NewAttempt_CallerAnswer(s, answer_int) ==
    [question_text |-> s.current_question, expected_answer |-> answer_int,
     user_answer |-> Some(answer_int), correct |-> WasCorrect(answer_int, s),
     answered_at |-> isoformat(now)]

NewAttempt(s, answer_int) ==
    [question_text |-> s.current_question, expected_answer |-> s.expected_answer,
     user_answer |-> Some(answer_int), correct |-> WasCorrect(answer_int, s),
     answered_at |-> isoformat(now)]

Answered_NoScore(s, answer_int, q) ==
    [s EXCEPT !.game_result.attempts = Append(@, NewAttempt(s, answer_int)),
              !.total_questions = @ + 1,
              !.correct_answers = IF WasCorrect(answer_int, s) THEN @ + 1 ELSE @,
              !.current_question = q.question,
              !.expected_answer = q.answer]

Answered_CountsTwice(s, answer_int, q) ==
    [s EXCEPT !.game_result.attempts = Append(@, NewAttempt(s, answer_int)),
              !.total_questions = @ + 2,
              !.correct_answers = IF WasCorrect(answer_int, s) THEN @ + 1 ELSE @,
              !.score = IF WasCorrect(answer_int, s) THEN @ + 1 ELSE @,
              !.current_question = q.question,
              !.expected_answer = q.answer]

\* the session after an accepted answer, q the next problem
Answered(s, answer_int, q) ==
    [s EXCEPT !.game_result.attempts = Append(@, NewAttempt(s, answer_int)),
              !.total_questions = @ + 1,
              !.correct_answers = IF WasCorrect(answer_int, s) THEN @ + 1 ELSE @,
              !.score = IF WasCorrect(answer_int, s) THEN @ + 1 ELSE @,
              !.current_question = q.question,
              !.expected_answer = q.answer]

AnswerRet(user_id, v) == [op |-> "process_answer", user_id |-> user_id, value |-> v]

\* if user_id not in self.active_sessions (process_answer)
NoActiveGame(user_id) == user_id \notin DOMAIN active_sessions

\* process_answer with the text parsed before the end_time is looked at
process_answer_ParseFirst(user_id, user_answer) ==
    IF NoActiveGame(user_id)
    THEN /\ ret' = AnswerRet(user_id, <<FALSE, Some(MsgNoActiveGame), None, None>>)
         /\ UNCHANGED <<active_sessions, tasks, db_users, db_results, now, sink_calls, notified, next_id>>
    ELSE IF ~IsIntText(user_answer)
    THEN /\ ret' = AnswerRet(user_id, <<FALSE, Some(MsgNotANumber), None, None>>)
         /\ UNCHANGED <<active_sessions, tasks, db_users, db_results, now, sink_calls, notified, next_id>>
    ELSE IF TimeIsUp(active_sessions[user_id])
    THEN /\ EndGameBody(user_id, tasks')
         /\ ret' = AnswerRet(user_id, <<FALSE, None, None, None>>)
         /\ UNCHANGED <<db_users, now, sink_calls, notified, next_id>>
    ELSE \E d \in SessionDraws :
         LET s == active_sessions[user_id]
             n == IntOf(user_answer)
             q == generate_question(d)
         IN  /\ AttemptsMade < MaxAttempts
             /\ active_sessions' = [active_sessions EXCEPT ![user_id] = Answered(s, n, q)]
             /\ ret' = AnswerRet(user_id, <<TRUE, None, Some(q.question), Some(WasCorrect(n, s))>>)
             /\ UNCHANGED <<tasks, db_users, db_results, now, sink_calls, notified, next_id>>

process_answer(user_id, user_answer) ==
    IF NoActiveGame(user_id)
    THEN /\ ret' = AnswerRet(user_id, <<FALSE, Some(MsgNoActiveGame), None, None>>)
         /\ UNCHANGED <<active_sessions, tasks, db_users, db_results, now, sink_calls, notified, next_id>>
    ELSE IF TimeIsUp(active_sessions[user_id])
    THEN /\ EndGameBody(user_id, tasks')
         /\ ret' = AnswerRet(user_id, <<FALSE, None, None, None>>)
         /\ UNCHANGED <<db_users, now, sink_calls, notified, next_id>>
    ELSE IF ~IsIntText(user_answer)
    THEN /\ ret' = AnswerRet(user_id, <<FALSE, Some(MsgNotANumber), None, None>>)
         /\ UNCHANGED <<active_sessions, tasks, db_users, db_results, now, sink_calls, notified, next_id>>
    ELSE \E d \in SessionDraws :
         LET s == active_sessions[user_id]
             n == IntOf(user_answer)
             q == generate_question(d)
         IN  /\ AttemptsMade < MaxAttempts
             /\ active_sessions' = [active_sessions EXCEPT ![user_id] = Answered(s, n, q)]
             /\ ret' = AnswerRet(user_id, <<TRUE, None, Some(q.question), Some(WasCorrect(n, s))>>)
             /\ UNCHANGED <<tasks, db_users, db_results, now, sink_calls, notified, next_id>>

ProcessAnswer(U) == \E u \in U, text \in RawTexts : process_answer(u, text)

----------------------------------------------------------------------------
(* _game_timer, one action per step of the task between suspension points *)

\* asyncio.sleep(wait_seconds) has elapsed; the task is ready to resume
TimerSleepDone(t) ==
    /\ tasks[t].pc = "sleep"
    /\ ~tasks[t].must_cancel
    /\ now >= tasks[t].end_time
    /\ tasks' = [tasks EXCEPT ![t].pc = "ready"]
    /\ UNCHANGED <<active_sessions, db_users, db_results, now, sink_calls, notified, next_id, ret>>

\* a cancelled task resumes with CancelledError in the sleep and ends
TimerCancelled(t) ==
    /\ tasks[t].pc \in {"sleep", "ready"}
    /\ tasks[t].must_cancel
    /\ tasks' = Remove(tasks, t)
    /\ UNCHANGED <<active_sessions, db_users, db_results, now, sink_calls, notified, next_id, ret>>

\* if user_id in self.active_sessions
SessionStillActive(user_id) == user_id \in DOMAIN active_sessions

\* the front end's end_callback, up to its first suspension point: it ends the
\* game of the user, then starts sending the message; t is the task it runs in
end_callback(user_id, t) ==
    \E ts \in {CancelTimer(active_sessions[user_id])} :
        /\ EndGameBody(user_id, ts)
        /\ tasks' = [ts EXCEPT ![t].pc = "callback"]

\* the task resumes after the sleep: the check, then await callback(user_id)
TimerFire(t) ==
    /\ tasks[t].pc = "ready"
    /\ ~tasks[t].must_cancel
    /\ IF SessionStillActive(tasks[t].user_id)
       THEN /\ sink_calls' = Append(sink_calls, tasks[t].user_id)
            /\ end_callback(tasks[t].user_id, t)
       ELSE /\ tasks' = Remove(tasks, t)
            /\ UNCHANGED <<active_sessions, db_results, sink_calls>>
    /\ UNCHANGED <<db_users, now, notified, next_id, ret>>

\* the end_callback resumes at its suspension point: with CancelledError if the
\* task was cancelled meanwhile, else the message is sent and the task ends
TimerCallbackResume(t) ==
    /\ tasks[t].pc = "callback"
    /\ IF tasks[t].must_cancel
       THEN /\ tasks' = Remove(tasks, t)
            /\ UNCHANGED notified
       ELSE /\ tasks' = Remove(tasks, t)
            /\ notified' = Append(notified, tasks[t].user_id)
    /\ UNCHANGED <<active_sessions, db_users, db_results, now, sink_calls, next_id, ret>>

SleepDone == \E t \in DOMAIN tasks : TimerSleepDone(t)
Cancelled == \E t \in DOMAIN tasks : TimerCancelled(t)
Fire == \E t \in DOMAIN tasks : TimerFire(t)
CallbackResume == \E t \in DOMAIN tasks : TimerCallbackResume(t)

----------------------------------------------------------------------------
\* the clock advances; with no session live nothing reads the clock
Tick ==
    /\ now < MaxTicks * TickStep
    /\ DOMAIN active_sessions # {}
    /\ now' = now + TickStep
    /\ UNCHANGED <<active_sessions, tasks, db_users, db_results, sink_calls, notified, next_id, ret>>

NextFor(U) ==
    \/ StartGame(U)
    \/ ProcessAnswer(U)
    \/ EndGame(U)
    \/ ForceEndGame(U)
    \/ GetSession(U)
    \/ SleepDone
    \/ Cancelled
    \/ Fire
    \/ CallbackResume
    \/ Tick

Next == NextFor(Users)

Spec == Init /\ [][Next]_vars

\* two users talk to the bot
TwoUsers == {1, 2}

NextTwoUsers == NextFor(TwoUsers)

SpecTwoUsers == Init /\ [][NextTwoUsers]_vars

----------------------------------------------------------------------------
(* The problem generator over all its draws: games are started and ended,     *)
(* the first problem of each game generated from any draw.                    *)

StartGameAnyDraw == \E u \in Users, p \in ProfileDraws : start_game_drawing(u, p, FALSE, AllDraws)

NextGenerator ==
    \/ StartGameAnyDraw
    \/ EndGame(Users)

SpecGenerator == Init /\ [][NextGenerator]_vars

----------------------------------------------------------------------------
(* get_leaderboard (src/utils.py) over the saved results and users *)

MaxResults == 3

\* the players and the scores of the saved games
Players == {1, 2, 3}
Scores == {3, 5, 7}
Limits == {0, 1, 2, 10}

NoName == "no name"

\* a saved game of user_id with the score, the i-th of the storage
SavedGame(i, user_id, score) ==
    [id |-> i, user_telegram_id |-> user_id, score |-> score, total_questions |-> score + 1,
     correct_answers |-> score, started_at |-> isoformat(0), finished_at |-> Some(isoformat(0)),
     attempts |-> <<>>]

\* the storages read: every sequence of up to MaxResults saved games
Histories ==
    UNION { { [i \in 1..n |-> SavedGame(i, h[i][1], h[i][2])] : h \in [1..n -> Players \X Scores] } : n \in 0..MaxResults }

\* the profiles: user 1 has a username, user 2 a first name only, user 3 no profile
KnownUsers ==
    [u \in {1, 2} |->
        [telegram_id |-> u, username |-> IF u = 1 THEN Some("ann") ELSE None,
         first_name |-> Some("Bob"), last_name |-> None, created_at |-> isoformat(0)]]

Max(a, b) == IF a >= b THEN a ELSE b

UpdateStats_LastScore(stat, result) ==
    [stat EXCEPT !.best_score = result.score, !.total_games = @ + 1]

\* best_score = max(best_score, result.score); total_games += 1
UpdateStats(stat, result) ==
    [stat EXCEPT !.best_score = Max(@, result.score), !.total_games = @ + 1]

\* the position of user_id in the dict user_stats, 0 if it is no key
RECURSIVE KeyIndex(_, _, _)
KeyIndex(stats, user_id, i) ==
    IF i > Len(stats) THEN 0
    ELSE IF stats[i].user_id = user_id THEN i
    ELSE KeyIndex(stats, user_id, i + 1)

\* the loop over all_results; user_stats is a dict, kept in insertion order
RECURSIVE UserStats(_, _)
UserStats(results, stats) ==
    IF results = <<>> THEN stats
    ELSE LET result == Head(results)
             k == KeyIndex(stats, result.user_telegram_id, 1)
             fresh == [user_id |-> result.user_telegram_id, best_score |-> 0, total_games |-> 0]
         IN  IF k = 0
             THEN UserStats(Tail(results), Append(stats, UpdateStats(fresh, result)))
             ELSE UserStats(Tail(results), [stats EXCEPT ![k] = UpdateStats(@, result)])

\* user.username or user.first_name or the placeholder
DisplayName(users, user_id) ==
    IF user_id \notin DOMAIN users THEN NoName
    ELSE IF users[user_id].username \notin {None, Some("")} THEN users[user_id].username[1]
    ELSE IF users[user_id].first_name \notin {None, Some("")} THEN users[user_id].first_name[1]
    ELSE NoName

\* the sort key (-best_score, -total_games): x sorts strictly before y
SortsBefore(x, y) == x[2] > y[2] \/ (x[2] = y[2] /\ x[3] > y[3])

\* list.sort is stable: an entry goes behind the entries with an equal key
RECURSIVE InsertSorted(_, _)
InsertSorted(sorted, e) ==
    IF sorted = <<>> THEN <<e>>
    ELSE IF SortsBefore(e, Head(sorted)) THEN <<e>> \o sorted
    ELSE <<Head(sorted)>> \o InsertSorted(Tail(sorted), e)

RECURSIVE StableSort(_, _)
StableSort(entries, sorted) ==
    IF entries = <<>> THEN sorted
    ELSE StableSort(Tail(entries), InsertSorted(sorted, Head(entries)))

\* leaderboard[:limit], limit >= 0
Truncate(entries, limit) == SubSeq(entries, 1, Min(limit, Len(entries)))

Leaderboard(results, users, limit) ==
    LET stats == UserStats(results, <<>>)
        entries == [i \in 1..Len(stats) |->
                        <<DisplayName(users, stats[i].user_id), stats[i].best_score, stats[i].total_games>>]
    IN  Truncate(StableSort(entries, <<>>), limit)

get_leaderboard(limit) ==
    /\ ret' = [op |-> "get_leaderboard", user_id |-> 0, value |-> Leaderboard(db_results, db_users, limit)]
    /\ UNCHANGED <<active_sessions, tasks, db_users, db_results, now, sink_calls, notified, next_id>>

GetLeaderboard == \E limit \in Limits : get_leaderboard(limit)

InitLeaderboard ==
    /\ active_sessions = <<>>
    /\ tasks = <<>>
    /\ db_users = KnownUsers
    /\ db_results \in Histories
    /\ now = 0
    /\ sink_calls = <<>>
    /\ notified = <<>>
    /\ next_id = 1
    /\ ret = [op |-> "init", user_id |-> 0, value |-> None]

NextLeaderboard == GetLeaderboard

SpecLeaderboard == InitLeaderboard /\ [][NextLeaderboard]_vars

----------------------------------------------------------------------------
(* The storage collaborator fails: its call raises, and the exception leaves   *)
(* the method at the call, with what the method did before it kept.            *)

\* the exception that reaches the caller
StorageError == <<"raise", "StorageError">>

\* start_game when db.get_or_create_user raises
start_game_db_fails(user_id) ==
    /\ ~AlreadyActive(user_id)
    /\ ret' = [op |-> "start_game", user_id |-> user_id, value |-> StorageError]
    /\ UNCHANGED <<active_sessions, tasks, db_users, db_results, now, sink_calls, notified, next_id>>

\* end_game up to db.save_game_result raising: the timer has been cancelled and
\* the bound GameResult has its final fields; nothing is saved, nothing deleted
EndGameBodySaveFails(user_id, tasks_after) ==
    /\ tasks_after = CancelTimer(active_sessions[user_id])
    /\ active_sessions' = [active_sessions EXCEPT ![user_id].game_result = FinalResult(active_sessions[user_id])]
    /\ UNCHANGED db_results

end_game_db_fails(user_id) ==
    /\ ~NothingToEnd(user_id)
    /\ EndGameBodySaveFails(user_id, tasks')
    /\ ret' = [op |-> "end_game", user_id |-> user_id, value |-> StorageError]
    /\ UNCHANGED <<db_users, now, sink_calls, notified, next_id>>

force_end_game_db_fails(user_id) ==
    /\ SomethingToEnd(user_id)
    /\ EndGameBodySaveFails(user_id, tasks')
    /\ ret' = [op |-> "force_end_game", user_id |-> user_id, value |-> StorageError]
    /\ UNCHANGED <<db_users, now, sink_calls, notified, next_id>>

\* process_answer after end_time, when the end_game it calls raises
process_answer_db_fails(user_id) ==
    /\ ~NoActiveGame(user_id)
    /\ TimeIsUp(active_sessions[user_id])
    /\ EndGameBodySaveFails(user_id, tasks')
    /\ ret' = AnswerRet(user_id, StorageError)
    /\ UNCHANGED <<db_users, now, sink_calls, notified, next_id>>

\* the timer resumes after the sleep and the end_game of its callback raises:
\* the exception ends the task
TimerFireDbFails(t) ==
    /\ tasks[t].pc = "ready"
    /\ ~tasks[t].must_cancel
    /\ SessionStillActive(tasks[t].user_id)
    /\ sink_calls' = Append(sink_calls, tasks[t].user_id)
    /\ \E ts \in {CancelTimer(active_sessions[tasks[t].user_id])} :
          /\ EndGameBodySaveFails(tasks[t].user_id, ts)
          /\ tasks' = Remove(ts, t)
    /\ UNCHANGED <<db_users, now, notified, next_id, ret>>

StartGameDbFails == \E u \in Users : start_game_db_fails(u)
EndGameDbFails == \E u \in Users : end_game_db_fails(u)
ForceEndGameDbFails == \E u \in Users : force_end_game_db_fails(u)
ProcessAnswerDbFails == \E u \in Users : process_answer_db_fails(u)
FireDbFails == \E t \in DOMAIN tasks : TimerFireDbFails(t)

NextDbFails ==
    \/ Next
    \/ StartGameDbFails
    \/ EndGameDbFails
    \/ ForceEndGameDbFails
    \/ ProcessAnswerDbFails
    \/ FireDbFails

SpecDbFails == Init /\ [][NextDbFails]_vars

----------------------------------------------------------------------------
(* Properties *)

Live == DOMAIN active_sessions

\* the number of saved GameResults that are the object id
SavedCount(id) == Cardinality({i \in 1..Len(db_results) : db_results[i].id = id})

\* the ids of the GameResults bound to live sessions
LiveIds == {active_sessions[u].game_result.id : u \in Live}

\* what end_game saves for session s at the current time
Finalized(s) ==
    [id |-> s.game_result.id, user_telegram_id |-> s.user_id, score |-> s.score,
     total_questions |-> s.total_questions, correct_answers |-> s.correct_answers,
     started_at |-> s.game_result.started_at, finished_at |-> Some(isoformat(now)),
     attempts |-> s.game_result.attempts]

\* the timer of session s, if it has not finished, has been asked to cancel
TimerCancelRequested(s, ts) ==
    (s.task # None /\ s.task[1] \in DOMAIN tasks) =>
        (s.task[1] \in DOMAIN ts /\ ts[s.task[1]].must_cancel)

Expired == <<FALSE, None, None, None>>
InvalidInput == <<FALSE, Some(MsgNotANumber), None, None>>

\* texts that are no integer: a word, the empty string, a decimal, two numbers
NonIntegerTexts == { <<"a", "b", "c">>, <<>>, <<"7", ".", "0">>, <<"7", " ", "7">> }

\* C1: the table holds one session per user, keyed by its own user_id and bound to
\* its own GameResult, and start_game for a user with a live session returns None
\* and changes neither the session, the timers nor the storage.
C1_StartOnLiveSessionIsRefused ==
    /\ [](\A u \in Live :
            /\ active_sessions[u].user_id = u
            /\ active_sessions[u].game_result.user_telegram_id = u
            /\ \A v \in Live : active_sessions[v].game_result.id = active_sessions[u].game_result.id => v = u)
    /\ [][\A u \in Users, p \in ProfileDraws, cb \in BOOLEAN :
            (u \in DOMAIN active_sessions /\ start_game(u, p, cb)) =>
                /\ ret'.value = None
                /\ UNCHANGED <<active_sessions, tasks, db_users, db_results, sink_calls, notified, next_id>>]_vars

C1_Witness ==
    /\ ret.op = "start_game" /\ ret.value = None
    /\ ret.user_id \in Live
    /\ active_sessions[ret.user_id].game_result.attempts # <<>>

\* C2: the GameResult of every session ever started is saved at most once, never
\* while the session is still in the table, and exactly once when it has left it.
C2_FinalizedExactlyOnce ==
    \A id \in 1..(next_id - 1) :
        /\ SavedCount(id) <= 1
        /\ id \in LiveIds => SavedCount(id) = 0
        /\ id \notin LiveIds => SavedCount(id) = 1

\* the timer had already woken up when a late answer finalized the session
C2_Witness ==
    /\ ret.op = "process_answer" /\ ret.value = Expired
    /\ SavedCount(1) = 1 /\ 1 \notin LiveIds
    /\ 1 \in DOMAIN tasks /\ tasks[1].pc = "ready" /\ tasks[1].must_cancel

\* C3: process_answer on a live session before its end_time with a text that is no
\* integer returns the not-a-number outcome and changes nothing.
C3_InvalidInputChangesNothing ==
    [][\A u \in Users, text \in NonIntegerTexts :
            (u \in DOMAIN active_sessions /\ now < active_sessions[u].end_time /\ process_answer(u, text)) =>
                /\ ret'.value = InvalidInput
                /\ UNCHANGED <<active_sessions, tasks, db_users, db_results, sink_calls, notified, next_id>>]_vars

C3_Witness ==
    /\ ret.op = "process_answer" /\ ret.value = InvalidInput
    /\ ret.user_id \in Live
    /\ now < active_sessions[ret.user_id].end_time
    /\ Len(active_sessions[ret.user_id].game_result.attempts) = 1

\* C4: process_answer on a live session at or after its end_time returns the
\* expired outcome with no next problem, saves the session's GameResult as it was
\* (no attempt added) with finished_at set, asks its timer to cancel and removes the
\* session, so that get_session then returns None.
C4_AnswerAfterEndTimeExpires ==
    /\ [][\A u \in Users, text \in RawTexts :
            (u \in DOMAIN active_sessions /\ now >= active_sessions[u].end_time /\ process_answer(u, text)) =>
                /\ ret'.value = Expired
                /\ u \notin DOMAIN active_sessions'
                /\ db_results' = Append(db_results, Finalized(active_sessions[u]))
                /\ TimerCancelRequested(active_sessions[u], tasks')]_vars
    /\ []((ret.op = "process_answer" /\ ret.value = Expired) => ret.user_id \notin Live)
    /\ [][\A u \in Users : (u \notin DOMAIN active_sessions /\ get_session(u)) => ret'.value = None]_vars

C4_Witness ==
    /\ ret.op = "process_answer" /\ ret.value = Expired
    /\ db_results # <<>>
    /\ db_results[Len(db_results)].user_telegram_id = ret.user_id
    /\ db_results[Len(db_results)].finished_at = Some(isoformat(now))
    /\ db_results[Len(db_results)].attempts # <<>>

\* C5: end_game for a user with a live session returns its GameResult with
\* finished_at set, saves it and removes the session; end_game for a user without a
\* session (as right after the first call) returns None and changes nothing.
C5_EndTwice ==
    /\ [][\A u \in Users :
            (u \in DOMAIN active_sessions /\ end_game(u)) =>
                /\ ret'.value = Some(Finalized(active_sessions[u]))
                /\ ret'.value[1].finished_at # None
                /\ db_results' = Append(db_results, ret'.value[1])
                /\ u \notin DOMAIN active_sessions']_vars
    /\ []((ret.op = "end_game") => ret.user_id \notin Live)
    /\ [][\A u \in Users :
            (u \notin DOMAIN active_sessions /\ end_game(u)) =>
                /\ ret'.value = None
                /\ UNCHANGED <<active_sessions, tasks, db_users, db_results, sink_calls, notified, next_id>>]_vars

C5_Witness ==
    /\ ret.op = "end_game" /\ ret.value = None
    /\ db_results # <<>>
    /\ db_results[Len(db_results)].user_telegram_id = ret.user_id
    /\ sink_calls = <<>>

\* every attempt of the session answered with the expected answer
AllCorrect(s) ==
    \A i \in 1..Len(s.game_result.attempts) :
        s.game_result.attempts[i].user_answer = Some(s.game_result.attempts[i].expected_answer)

\* C6: a session whose N answers so far each gave the stored expected answer has
\* score N and correct_answers N.
C6_AllCorrectScoresN ==
    \A u \in Live :
        AllCorrect(active_sessions[u]) =>
            /\ active_sessions[u].score = Len(active_sessions[u].game_result.attempts)
            /\ active_sessions[u].correct_answers = Len(active_sessions[u].game_result.attempts)

C6_Witness ==
    \E u \in Live :
        /\ AllCorrect(active_sessions[u])
        /\ Len(active_sessions[u].game_result.attempts) = MaxAttempts
        /\ active_sessions[u].score = MaxAttempts

\* C7: every session in the table has an expiration timer scheduled that has not
\* finished (start_game always schedules the action that finalizes the session).
C7_EverySessionHasTimer ==
    \A u \in Live :
        /\ active_sessions[u].task # None
        /\ active_sessions[u].task[1] \in DOMAIN tasks

\* the session the timer task t was created for is in the table
OwnSessionLive(t) ==
    /\ tasks[t].user_id \in Live
    /\ active_sessions[tasks[t].user_id].task = Some(t)

\* C8: when the timer of a session resumes after its sleep: if its session is in
\* the table, the session's GameResult is saved as by end_game, the session is
\* removed and the end_callback is invoked for the user; if its session has been
\* ended, no step of the timer touches the table, the storage or the sink.
C8_TimerFinalizesOnlyLiveSession ==
    [][\A t \in DOMAIN tasks :
          /\ (OwnSessionLive(t) /\ TimerFire(t)) =>
                /\ tasks[t].user_id \notin DOMAIN active_sessions'
                /\ db_results' = Append(db_results, Finalized(active_sessions[tasks[t].user_id]))
                /\ sink_calls' = Append(sink_calls, tasks[t].user_id)
          /\ (~OwnSessionLive(t) /\ (TimerSleepDone(t) \/ TimerCancelled(t) \/ TimerFire(t) \/ TimerCallbackResume(t))) =>
                UNCHANGED <<active_sessions, db_results, db_users, sink_calls>>]_vars

C8_Witness ==
    /\ Len(db_results) = 2
    /\ Len(sink_calls) = 1
    /\ db_results[1].id = 1 /\ db_results[2].id = 2
    /\ DOMAIN tasks = {2}

\* C9: a timer task that is running the end_callback has not been asked to cancel.
C9_RunningCallbackNotCancelled ==
    \A t \in DOMAIN tasks : tasks[t].pc = "callback" => ~tasks[t].must_cancel

\* C10: for every live session correct_answers <= total_questions - 1 <=
\* len(attempts), with score >= 0, correct_answers >= 0 and total_questions >= 1.
C10_CounterBounds ==
    \A u \in Live :
        LET s == active_sessions[u]
        IN  /\ s.correct_answers <= s.total_questions - 1
            /\ s.total_questions - 1 <= Len(s.game_result.attempts)
            /\ s.score >= 0
            /\ s.correct_answers >= 0
            /\ s.total_questions >= 1

C10_Witness ==
    \E u \in Live :
        /\ Len(active_sessions[u].game_result.attempts) = MaxAttempts
        /\ active_sessions[u].correct_answers = 1
        /\ active_sessions[u].total_questions = MaxAttempts + 1
----------------------------------------------------------------------------
\* a step taken for user a: a call of the interface with user_id a, or a step of a
\* timer task created for a
StepFor(a) ==
    \/ \E p \in ProfileDraws, cb \in BOOLEAN : start_game(a, p, cb)
    \/ \E text \in RawTexts : process_answer(a, text)
    \/ end_game(a)
    \/ force_end_game(a)
    \/ get_session(a)
    \/ \E t \in DOMAIN tasks :
          /\ tasks[t].user_id = a
          /\ (TimerSleepDone(t) \/ TimerCancelled(t) \/ TimerFire(t) \/ TimerCallbackResume(t))

\* the saved GameResults of user b, in order
SavedOf(b, rs) == SelectSeq(rs, LAMBDA r : r.user_telegram_id = b)

\* C11: a step taken for user a leaves every other user b as it was: b's session
\* is in the table iff it was, with the same fields and attempts; b's timer tasks
\* are the same; no GameResult of b is saved and b's end_callback is not invoked.
C11_OtherUserUntouched ==
    [][\A a \in TwoUsers : StepFor(a) =>
          \A b \in TwoUsers \ {a} :
              /\ (b \in DOMAIN active_sessions') = (b \in DOMAIN active_sessions)
              /\ b \in DOMAIN active_sessions => active_sessions'[b] = active_sessions[b]
              /\ \A t \in DOMAIN tasks : tasks[t].user_id = b => (t \in DOMAIN tasks' /\ tasks'[t] = tasks[t])
              /\ \A t \in DOMAIN tasks' : tasks'[t].user_id = b => t \in DOMAIN tasks
              /\ SavedOf(b, db_results') = SavedOf(b, db_results)
              /\ SelectSeq(sink_calls', LAMBDA v : v = b) = SelectSeq(sink_calls, LAMBDA v : v = b)]_vars

\* user 1 ended their game while user 2 was in the middle of theirs
C11_Witness ==
    /\ ret.op = "end_game" /\ ret.user_id = 1 /\ ret.value # None
    /\ 1 \notin Live /\ 2 \in Live
    /\ active_sessions[2].game_result.attempts # <<>>
    /\ active_sessions[2].task # None
    /\ active_sessions[2].task[1] \in DOMAIN tasks
    /\ ~tasks[active_sessions[2].task[1]].must_cancel
    /\ SavedOf(2, db_results) = <<>>
----------------------------------------------------------------------------
\* the identities of the saved GameResults
SavedIds == {db_results[i].id : i \in 1..Len(db_results)}

\* C12: no step changes or removes a saved GameResult, and a session that
\* start_game registers is bound to a GameResult that is neither saved nor bound to
\* another session, with an empty attempt list, zero counters and no finished_at.
C12_SavedResultNeverChanges ==
    [][/\ Len(db_results') >= Len(db_results)
       /\ \A i \in 1..Len(db_results) : db_results'[i] = db_results[i]
       /\ \A u \in Users, p \in ProfileDraws, cb \in BOOLEAN :
            (u \notin DOMAIN active_sessions /\ start_game(u, p, cb)) =>
                /\ active_sessions'[u].game_result.id \notin SavedIds \cup LiveIds
                /\ active_sessions'[u].game_result.attempts = <<>>
                /\ active_sessions'[u].game_result.finished_at = None
                /\ active_sessions'[u].game_result.score = 0
                /\ active_sessions'[u].game_result.user_telegram_id = u]_vars

\* the user's second game has an answer while the first one, with its answer, is saved
C12_Witness ==
    /\ Len(db_results) = 1
    /\ Len(db_results[1].attempts) = 1
    /\ db_results[1].user_telegram_id \in Live
    /\ Len(active_sessions[db_results[1].user_telegram_id].game_result.attempts) = 1
    /\ active_sessions[db_results[1].user_telegram_id].game_result.id # db_results[1].id
----------------------------------------------------------------------------
\* the timer of session s has not finished and has not been asked to cancel
TimerPending(s, ts) ==
    /\ s.task # None
    /\ s.task[1] \in DOMAIN ts
    /\ ~ts[s.task[1]].must_cancel

\* C13: a call in which the storage raises hands the error to the caller and:
\* in start_game, registers no session and creates no timer task; in end_game,
\* leaves the session in the table and its timer, if it was pending, still pending.
C13_StorageFailureLeavesTimerPending ==
    [][/\ \A u \in Users :
            start_game_db_fails(u) =>
                /\ ret'.value = StorageError
                /\ UNCHANGED <<active_sessions, tasks, db_users, db_results, next_id>>
       /\ \A u \in Users :
            (u \in DOMAIN active_sessions /\ end_game_db_fails(u)) =>
                /\ ret'.value = StorageError
                /\ u \in DOMAIN active_sessions'
                /\ UNCHANGED db_results
                /\ TimerPending(active_sessions[u], tasks) => TimerPending(active_sessions'[u], tasks')]_vars
----------------------------------------------------------------------------
\* C14: the problem of every session has its expected answer in 0..99, and a
\* division problem has a divisor that is not zero and a dividend equal to the
\* divisor times the expected answer.
C14_AnswerInRange ==
    \A u \in Live :
        LET s == active_sessions[u]
        IN  /\ s.expected_answer \in 0..99
            /\ s.current_question[2] = "/" =>
                  /\ s.current_question[3] # 0
                  /\ s.current_question[1] = s.current_question[3] * s.expected_answer

\* the largest division problem: 99 / 9 = 11
C14_Witness ==
    \E u \in Live :
        /\ active_sessions[u].current_question = <<99, "/", 9>>
        /\ active_sessions[u].expected_answer = 11
----------------------------------------------------------------------------
\* the users with a saved game, their best score and their number of games
ResultUsers == {db_results[i].user_telegram_id : i \in 1..Len(db_results)}
ScoresOf(u) == {db_results[i].score : i \in {j \in 1..Len(db_results) : db_results[j].user_telegram_id = u}}
BestOf(u) == CHOOSE m \in ScoresOf(u) : \A x \in ScoresOf(u) : x <= m
GamesOf(u) == Cardinality({i \in 1..Len(db_results) : db_results[i].user_telegram_id = u})

\* the rankings of the users with a saved game: each user once, best score
\* descending, then number of games descending
Rankings ==
    { r \in [1..Cardinality(ResultUsers) -> ResultUsers] :
        /\ \A i, j \in DOMAIN r : i # j => r[i] # r[j]
        /\ \A i, j \in DOMAIN r :
              i < j => \/ BestOf(r[i]) > BestOf(r[j])
                       \/ (BestOf(r[i]) = BestOf(r[j]) /\ GamesOf(r[i]) >= GamesOf(r[j])) }

\* C15: get_leaderboard(limit) returns the first limit entries of a ranking of the
\* users with a saved game, each user once with its display name, the maximum of
\* its scores and the number of its saved games.
C15_LeaderboardRanksUsers ==
    [][\A limit \in Limits : get_leaderboard(limit) =>
          /\ Len(ret'.value) = Min(limit, Cardinality(ResultUsers))
          /\ \E r \in Rankings :
                \A i \in 1..Len(ret'.value) :
                    ret'.value[i] = <<DisplayName(db_users, r[i]), BestOf(r[i]), GamesOf(r[i])>>]_vars

\* user 1 scored 3 and 7, user 2 scored 5
C15_Witness ==
    /\ [i \in 1..Len(db_results) |-> <<db_results[i].user_telegram_id, db_results[i].score>>]
            = << <<1, 3>>, <<2, 5>>, <<1, 7>> >>
    /\ ret.op = "get_leaderboard"
    /\ ret.value = << <<"ann", 7, 2>>, <<"Bob", 5, 1>> >>
----------------------------------------------------------------------------
\* texts that are an integer; each of them is the integer 7
IntegerTexts == { <<"7">>, <<" ", "7", " ">>, <<"+", "0", "7">> }

\* C16: process_answer on a live session before its end_time with an integer text
\* appends one attempt with the stored question and expected answer, correct iff
\* the integer is the stored expected answer; adds 1 to total_questions, and to
\* score and correct_answers iff correct; replaces the problem by a generated one,
\* which it returns; and changes nothing else: user_id, end_time, task, the bound
\* GameResult's other fields, the other sessions, the timers and the storage.
C16_AcceptedChangesExactly ==
    [][\A u \in Users, text \in IntegerTexts :
          (u \in DOMAIN active_sessions /\ now < active_sessions[u].end_time /\ process_answer(u, text)) =>
              LET s == active_sessions[u]
                  correct == (7 = s.expected_answer)
                  inc == IF correct THEN 1 ELSE 0
              IN  /\ DOMAIN active_sessions' = DOMAIN active_sessions
                  /\ \A v \in DOMAIN active_sessions \ {u} : active_sessions'[v] = active_sessions[v]
                  /\ active_sessions'[u].game_result.attempts =
                        Append(s.game_result.attempts,
                               [question_text |-> s.current_question, expected_answer |-> s.expected_answer,
                                user_answer |-> Some(7), correct |-> correct, answered_at |-> isoformat(now)])
                  /\ active_sessions'[u].total_questions = s.total_questions + 1
                  /\ active_sessions'[u].score = s.score + inc
                  /\ active_sessions'[u].correct_answers = s.correct_answers + inc
                  /\ \E d \in SessionDraws :
                        /\ active_sessions'[u].current_question = generate_question(d).question
                        /\ active_sessions'[u].expected_answer = generate_question(d).answer
                        /\ ret'.value = <<TRUE, None, Some(generate_question(d).question), Some(correct)>>
                  /\ active_sessions'[u].user_id = s.user_id
                  /\ active_sessions'[u].end_time = s.end_time
                  /\ active_sessions'[u].task = s.task
                  /\ [active_sessions'[u].game_result EXCEPT !.attempts = <<>>] = [s.game_result EXCEPT !.attempts = <<>>]
                  /\ UNCHANGED <<tasks, db_users, db_results, sink_calls, notified, next_id>>]_vars

\* a right answer, then a wrong one
C16_Witness ==
    /\ ret.op = "process_answer" /\ ret.value[1] = TRUE /\ ret.value[4] = Some(FALSE)
    /\ ret.user_id \in Live
    /\ Len(active_sessions[ret.user_id].game_result.attempts) = 2
    /\ active_sessions[ret.user_id].game_result.attempts[1].correct
    /\ ~active_sessions[ret.user_id].game_result.attempts[2].correct
    /\ active_sessions[ret.user_id].score = 1
    /\ active_sessions[ret.user_id].total_questions = 3
----------------------------------------------------------------------------
\* the number of attempts marked correct
NumCorrect(attempts) == Cardinality({i \in 1..Len(attempts) : attempts[i].correct})

\* C17: every live session has total_questions = len(attempts) + 1 and
\* score = correct_answers = the number of its attempts marked correct, and so has
\* every saved GameResult.
C17_TotalCountsOutstanding ==
    /\ \A u \in Live :
          LET s == active_sessions[u]
          IN  /\ s.total_questions = Len(s.game_result.attempts) + 1
              /\ s.score = s.correct_answers
              /\ s.score = NumCorrect(s.game_result.attempts)
    /\ \A i \in 1..Len(db_results) :
          LET r == db_results[i]
          IN  /\ r.total_questions = Len(r.attempts) + 1
              /\ r.score = r.correct_answers
              /\ r.score = NumCorrect(r.attempts)

\* a saved game of two answers, one of them right
C17_Witness ==
    \E i \in 1..Len(db_results) :
        /\ Len(db_results[i].attempts) = 2
        /\ db_results[i].total_questions = 3
        /\ db_results[i].score = 1
----------------------------------------------------------------------------
NoActiveSession == <<FALSE, Some(MsgNoActiveGame), None, None>>

\* every attempt was answered before the time seconds
AnsweredBefore(attempts, time) == \A i \in 1..Len(attempts) : attempts[i].answered_at.iso < time

\* C18: process_answer looks at the session first, then at the time, then at the
\* text: without a session every text gets the no-active-game outcome; on a live
\* session at or after end_time a text that is no integer gets the expired outcome
\* and the session is saved and removed; before end_time it gets the not-a-number
\* outcome. No attempt of a live or saved game was answered at or after the end_time.
C18_OutcomeOrder ==
    /\ [][\A u \in Users, text \in NonIntegerTexts :
            /\ (u \notin DOMAIN active_sessions /\ process_answer(u, text)) =>
                    ret'.value = NoActiveSession
            /\ (u \in DOMAIN active_sessions /\ now >= active_sessions[u].end_time /\ process_answer(u, text)) =>
                    /\ ret'.value = Expired
                    /\ ret'.value # InvalidInput
                    /\ u \notin DOMAIN active_sessions'
                    /\ db_results' = Append(db_results, Finalized(active_sessions[u]))
            /\ (u \in DOMAIN active_sessions /\ now < active_sessions[u].end_time /\ process_answer(u, text)) =>
                    ret'.value = InvalidInput]_vars
    /\ [](\A u \in Live :
            AnsweredBefore(active_sessions[u].game_result.attempts, active_sessions[u].end_time))
    /\ [](\A i \in 1..Len(db_results) :
            AnsweredBefore(db_results[i].attempts, db_results[i].started_at.iso + GAME_DURATION_SECONDS))

\* an answer at the end_time of a game with an attempt: the state is the same for
\* every text sent, an integer or not
C18_Witness ==
    /\ ret.op = "process_answer" /\ ret.value = Expired
    /\ ret.user_id \notin Live
    /\ db_results # <<>>
    /\ db_results[Len(db_results)].attempts # <<>>
    /\ db_results[Len(db_results)].finished_at = Some(isoformat(db_results[Len(db_results)].started_at.iso + GAME_DURATION_SECONDS))
----------------------------------------------------------------------------
\* a step of the timer task t
TimerStep(t) == TimerSleepDone(t) \/ TimerCancelled(t) \/ TimerFire(t) \/ TimerCallbackResume(t)

\* C19: a step of a timer task leaves every session it was not created for in the
\* table as it is, saves no GameResult of it and invokes no end_callback for it; a
\* timer task whose session has left the table has been asked to cancel; and a
\* session leaves the table before its end_time only by end_game or force_end_game.
C19_TimerEndsOnlyItsOwnSession ==
    /\ [][\A t \in DOMAIN tasks : TimerStep(t) =>
            \A u \in DOMAIN active_sessions :
                active_sessions[u].task # Some(t) =>
                    /\ u \in DOMAIN active_sessions'
                    /\ active_sessions'[u] = active_sessions[u]
                    /\ \A i \in 1..Len(db_results') : db_results'[i].id # active_sessions[u].game_result.id
                    /\ SelectSeq(sink_calls', LAMBDA v : v = u) = SelectSeq(sink_calls, LAMBDA v : v = u)]_vars
    /\ [](\A t \in DOMAIN tasks : ~OwnSessionLive(t) => tasks[t].must_cancel)
    /\ [][\A u \in DOMAIN active_sessions :
            (u \notin DOMAIN active_sessions' \/ active_sessions'[u].game_result.id # active_sessions[u].game_result.id) =>
                \/ end_game(u)
                \/ force_end_game(u)
                \/ now >= active_sessions[u].end_time]_vars

\* the timer of the first game had woken up when the game was ended, and the user
\* has started a second game, whose own timer is pending
C19_Witness ==
    \E t \in DOMAIN tasks :
        /\ tasks[t].pc = "ready" /\ tasks[t].must_cancel
        /\ tasks[t].user_id \in Live
        /\ active_sessions[tasks[t].user_id].task # None
        /\ active_sessions[tasks[t].user_id].task # Some(t)
        /\ active_sessions[tasks[t].user_id].task[1] \in DOMAIN tasks
        /\ now < active_sessions[tasks[t].user_id].end_time
----------------------------------------------------------------------------
\* C20: for a user without a session, process_answer returns the no-active-game
\* outcome whatever the text, and end_game, force_end_game and get_session return
\* None; none of them changes the table, the timers or the storage. get_session for
\* a user with a session returns the session and changes nothing.
C20_NoSessionNoEffect ==
    /\ [][\A u \in Users :
            u \notin DOMAIN active_sessions =>
                /\ \A text \in RawTexts : process_answer(u, text) =>
                        /\ ret'.value = NoActiveSession
                        /\ UNCHANGED <<active_sessions, tasks, db_users, db_results, sink_calls, notified, next_id>>
                /\ (end_game(u) \/ force_end_game(u) \/ get_session(u)) =>
                        /\ ret'.value = None
                        /\ UNCHANGED <<active_sessions, tasks, db_users, db_results, sink_calls, notified, next_id>>]_vars
    /\ [][\A u \in Users :
            (u \in DOMAIN active_sessions /\ get_session(u)) =>
                /\ ret'.value = Some(active_sessions[u])
                /\ UNCHANGED <<active_sessions, tasks, db_users, db_results, sink_calls, notified, next_id>>]_vars

\* an answer sent after the timer has ended the game
C20_Witness ==
    /\ ret.op = "process_answer" /\ ret.value = NoActiveSession
    /\ ret.user_id \notin Live
    /\ sink_calls = <<ret.user_id>>
    /\ Len(db_results) = 1
----------------------------------------------------------------------------
\* C21: the operands of the problem of every session are in their ranges: a sum
\* has 0 <= a <= 99 and 0 <= b <= 99 - a; a difference has 0 <= b <= a <= 99; a
\* product has a in 0..11, b in 0..99 if a = 0 and in 0..min(99 div a, 9) otherwise,
\* and a * b <= 99; a quotient has its divisor b in 1..9, its expected answer k in
\* 0..min(11, 99 div b) and its dividend b * k <= 99.
C21_OperandsInRange ==
    \A u \in Live :
        LET a == active_sessions[u].current_question[1]
            op == active_sessions[u].current_question[2]
            b == active_sessions[u].current_question[3]
            k == active_sessions[u].expected_answer
        IN  /\ op \in {"+", "-", "x", "/"}
            /\ op = "+" => (0 <= a /\ a <= 99 /\ 0 <= b /\ b <= 99 - a)
            /\ op = "-" => (0 <= b /\ b <= a /\ a <= 99)
            /\ op = "x" =>
                  /\ a \in 0..11
                  /\ a = 0 => b \in 0..99
                  /\ a # 0 => b \in 0..Min(99 \div a, 9)
                  /\ a * b <= 99
            /\ op = "/" =>
                  /\ b \in 1..9
                  /\ k \in 0..Min(11, 99 \div b)
                  /\ a = b * k
                  /\ a <= 99

\* the largest product: 11 x 9 = 99
C21_Witness ==
    \E u \in Live :
        /\ active_sessions[u].current_question = <<11, "x", 9>>
        /\ active_sessions[u].expected_answer = 99
====
